---- MODULE Spec2Model ----
(***************************************************************************)
(* Model of the Snowflake conda channel explorer (src/app.py): the         *)
(* sanitizers, the HTML table parser, the TTL-cached fetch, the search /   *)
(* license filter and the paginated render cycle of main().                *)
(*                                                                         *)
(* Text is a sequence of one-character strings, so that escaping,         *)
(* stripping and matching are computed character by character.  A URL is  *)
(* a sequence of lexical tokens ("https:", "//", "github.com", ":443",    *)
(* "/org/repo"), split the way urlparse splits it.                        *)
(***************************************************************************)
EXTENDS Integers, Sequences, FiniteSets, TLC

VARIABLES
    html_content,   \* parse_package_data: the document, a sequence of <tr> rows
    packages,       \* parse_package_data: its outcome [raised, records]
    df,             \* the record set a render or filter_packages works on
    search_term,    \* value of the "Search packages" text input
    license_filter, \* value of the "License" select box
    filtered_df,    \* result of filter_packages
    page_size,      \* items per page used by the pagination arithmetic
    current_page,   \* st.session_state.current_page
    last_search,    \* st.session_state.last_search
    last_license,   \* st.session_state.last_license
    total_items,    \* len(filtered_df)
    total_pages,    \* math.ceil(total_items / page_size)
    start_idx,      \* (current_page - 1) * page_size
    end_idx,        \* start_idx + page_size
    page_df,        \* filtered_df.iloc[start_idx:end_idx]
    status,         \* how the last step / script run ended
    cache,          \* the st.cache_data entry of fetch_package_data
    now,            \* wall clock, seconds
    calls,          \* fetch_package_data calls made by the last script run
    gets,           \* HTTP GETs made by the last script run
    errors,         \* st.error messages shown by the last script run
    shown_licenses, \* options of the select box as last rendered
    clicked         \* button whose click triggered the last script run

vars == <<html_content, packages, df, search_term, license_filter, filtered_df,
          page_size, current_page, last_search, last_license, total_items,
          total_pages, start_idx, end_idx, page_df, status, cache, now, calls,
          gets, errors, shown_licenses, clicked>>

(***************************************************************************)
(* Bounds of the model.                                                    *)
(***************************************************************************)
MaxDocRows == 3
MaxRecs == 2
MaxItems == 7
MaxPageSize == 3
MaxPage == 4
MaxTime == 7500
TickStep == 1500

(***************************************************************************)
(* Program constants.                                                      *)
(***************************************************************************)
ITEMS_PER_PAGE == 15
CACHE_TTL == 3600

Min(a, b) == IF a < b THEN a ELSE b
Max(a, b) == IF a > b THEN a ELSE b

Empty == <<>>
None == <<"None">>
All == <<"A", "l", "l">>

(***************************************************************************)
(* Text helpers.                                                           *)
(***************************************************************************)
RECURSIVE LStrip(_)
LStrip(s) ==
    IF s = <<>> THEN <<>>
    ELSE IF Head(s) = " " THEN LStrip(Tail(s)) ELSE s

RECURSIVE RStrip(_)
RStrip(s) ==
    IF s = <<>> THEN <<>>
    ELSE IF s[Len(s)] = " " THEN RStrip(SubSeq(s, 1, Len(s) - 1)) ELSE s

\* str.strip()
Strip(s) == RStrip(LStrip(s))

\* html.escape(c, quote=True) of one character
EscapeChar(c) ==
    CASE c = "&" -> <<"&", "a", "m", "p", ";">>
      [] c = "<" -> <<"&", "l", "t", ";">>
      [] c = ">" -> <<"&", "g", "t", ";">>
      [] c = "\"" -> <<"&", "q", "u", "o", "t", ";">>
      [] c = "'" -> <<"&", "#", "x", "2", "7", ";">>
      [] OTHER -> <<c>>

RECURSIVE HtmlEscape(_)
HtmlEscape(s) ==
    IF s = <<>> THEN <<>> ELSE EscapeChar(Head(s)) \o HtmlEscape(Tail(s))

sanitize_text(text) ==
    IF text = <<>> THEN Empty ELSE HtmlEscape(text)

(***************************************************************************)
(* URLs.  urlparse: the netloc is what follows a "//" that is at the start *)
(* or right after the scheme, up to the next "/", "?" or "#"; a netloc    *)
(* with an unbalanced bracket raises ValueError.                          *)
(***************************************************************************)
IsScheme(tok) == tok \in {"https:", "http:", "javascript:"}
IsPathStart(tok) == tok \in {"/org/repo", "/x", "/docs/index.html", "?q", "#f"}
IsUserinfo(tok) == tok \in {"user@", "evil.example@"}
IsPort(tok) == tok \in {":443", ":8080"}
HasOpenBracket(tok) == tok \in {"[::1", "[::1]"}
HasCloseBracket(tok) == tok \in {"[::1]", "::1]"}

AfterScheme(url) ==
    IF url # <<>> /\ IsScheme(Head(url)) THEN Tail(url) ELSE url

RECURSIVE UpToPath(_)
UpToPath(toks) ==
    IF toks = <<>> \/ IsPathStart(Head(toks)) THEN <<>>
    ELSE <<Head(toks)>> \o UpToPath(Tail(toks))

\* urlparse(url).netloc
Netloc(url) ==
    LET rest == AfterScheme(url)
    IN  IF rest # <<>> /\ Head(rest) = "//" THEN UpToPath(Tail(rest)) ELSE <<>>

\* urlparse(url).hostname (up to letter case): the netloc without userinfo and port
Hostname(url) ==
    SelectSeq(Netloc(url), LAMBDA tok : ~IsUserinfo(tok) /\ ~IsPort(tok))

\* urlparse(url) raises ValueError("Invalid IPv6 URL")
UrlparseRaises(url) ==
    LET nl == Netloc(url)
        open == \E i \in 1..Len(nl) : HasOpenBracket(nl[i])
        close == \E i \in 1..Len(nl) : HasCloseBracket(nl[i])
    IN  (open /\ ~close) \/ (close /\ ~open)

allowed_domains ==
    { <<"repo.anaconda.com">>, <<"github.com">>, <<"docs.snowflake.com">> }

\* mutant: the host name is compared instead of the whole netloc
SanitizeUrlByHost(url) ==
    IF url = <<>> THEN Empty
    ELSE IF UrlparseRaises(url) THEN Empty
    ELSE IF Hostname(url) \in allowed_domains THEN url
    ELSE Empty

sanitize_url(url) ==
    IF url = <<>> THEN Empty
    ELSE IF UrlparseRaises(url) THEN Empty
    ELSE IF Netloc(url) \in allowed_domains THEN url
    ELSE Empty

(***************************************************************************)
(* The parser.  A row is the sequence of its <td> cells; a cell has its    *)
(* text and its <a> elements in document order; an anchor may lack href.   *)
(***************************************************************************)
Anchor(url) == [has_href |-> TRUE, href |-> url]
AnchorNoHref == [has_href |-> FALSE, href |-> Empty]
Cell(text, anchors) == [text |-> text, anchors |-> anchors]

NoLink == [found |-> FALSE, a |-> AnchorNoHref]

\* cell.find('a'): the first anchor of the cell, or None
FindA(cell) ==
    IF cell.anchors = <<>> THEN NoLink
    ELSE [found |-> TRUE, a |-> Head(cell.anchors)]

doc_link(cols) == IF Len(cols) > 2 THEN FindA(cols[3]) ELSE NoLink
dev_link(cols) == IF Len(cols) > 3 THEN FindA(cols[4]) ELSE NoLink

\* link['href'] raises KeyError on an anchor without the attribute
HrefRaises(link) == link.found /\ ~link.a.has_href
Href(link) == IF link.found THEN link.a.href ELSE Empty

ColText(cols, i) == IF Len(cols) > i THEN Strip(cols[i + 1].text) ELSE Empty

package_info(cols) ==
    [package_name  |-> sanitize_text(ColText(cols, 0)),
     version       |-> sanitize_text(ColText(cols, 1)),
     documentation |-> sanitize_url(Href(doc_link(cols))),
     development   |-> sanitize_url(Href(dev_link(cols))),
     license       |-> sanitize_text(ColText(cols, 4)),
     summary       |-> sanitize_text(ColText(cols, 11))]

RowRaises(cols) == HrefRaises(doc_link(cols)) \/ HrefRaises(dev_link(cols))

Raised == [raised |-> TRUE, records |-> <<>>]
Returned(recs) == [raised |-> FALSE, records |-> recs]
NotParsed == [raised |-> FALSE, records |-> <<>>]

\* the loop over soup.find_all('tr')[1:]
RECURSIVE ParseRows(_, _)
ParseRows(rows, acc) ==
    IF rows = <<>> THEN Returned(acc)
    ELSE LET cols == Head(rows)
         IN  IF cols = <<>> THEN ParseRows(Tail(rows), acc)
             ELSE IF RowRaises(cols) THEN Raised
             ELSE ParseRows(Tail(rows), Append(acc, package_info(cols)))

parse_package_data(content) ==
    ParseRows(IF content = <<>> THEN <<>> ELSE Tail(content), <<>>)

(***************************************************************************)
(* filter_packages.  The search term is HTML-escaped, regex-escaped and    *)
(* compiled with re.IGNORECASE; str.contains is re.search.  A pattern is   *)
(* read as atoms: a backslash and the character it quotes match that       *)
(* character, "." matches any character, anything else matches itself.     *)
(***************************************************************************)
\* the characters re.escape quotes (those of re's _special_chars_map)
ReSpecial(c) ==
    c \in {"(", ")", "[", "]", "{", "}", "?", "*", "+", "-", "|", "^", "$",
           "\\", ".", "&", "~", "#", " "}

RECURSIVE ReEscape(_)
ReEscape(s) ==
    IF s = <<>> THEN <<>>
    ELSE (IF ReSpecial(Head(s)) THEN <<"\\", Head(s)>> ELSE <<Head(s)>>)
         \o ReEscape(Tail(s))

RECURSIVE Atoms(_)
Atoms(pat) ==
    IF pat = <<>> THEN <<>>
    ELSE IF Head(pat) = "\\" /\ Len(pat) >= 2
         THEN <<[any |-> FALSE, c |-> pat[2]]>> \o Atoms(Tail(Tail(pat)))
    ELSE IF Head(pat) = "."
         THEN <<[any |-> TRUE, c |-> "."]>> \o Atoms(Tail(pat))
    ELSE <<[any |-> FALSE, c |-> Head(pat)]>> \o Atoms(Tail(pat))

\* case folding of re.IGNORECASE on the letters of the model's texts
Lower(c) ==
    CASE c = "A" -> "a" [] c = "B" -> "b" [] c = "C" -> "c" [] c = "I" -> "i"
      [] c = "M" -> "m" [] c = "T" -> "t" [] c = "Z" -> "z"
      [] OTHER -> c

AtomMatches(atom, ch, ignorecase) ==
    \/ atom.any
    \/ atom.c = ch
    \/ ignorecase /\ Lower(atom.c) = Lower(ch)

\* pattern.search(text) is not None
ReSearch(pat, text, ignorecase) ==
    LET atoms == Atoms(pat)
    IN  \E off \in 0..(Len(text) - Len(atoms)) :
            \A j \in 1..Len(atoms) : AtomMatches(atoms[j], text[off + j], ignorecase)

\* mutant: the term is compiled without re.escape
SearchPatternUnescaped(term) == sanitize_text(term)

safe_search_term(term) == ReEscape(sanitize_text(term))

search_mask(rec, pat) ==
    ReSearch(pat, rec.package_name, TRUE) \/ ReSearch(pat, rec.summary, TRUE)

filter_packages(frame, term, lic) ==
    LET searched ==
            IF term # Empty
            THEN SelectSeq(frame, LAMBDA rec : search_mask(rec, safe_search_term(term)))
            ELSE frame
    IN  IF lic # All
        THEN SelectSeq(searched, LAMBDA rec : rec.license = sanitize_text(lic))
        ELSE searched

\* the values of df['license'].unique(), and the options of the select box
unique_licenses(frame) == { frame[i].license : i \in 1..Len(frame) }
licenses(frame) == {All} \cup unique_licenses(frame)

(***************************************************************************)
(* The pagination arithmetic of main().                                    *)
(***************************************************************************)
\* math.ceil(n / s) for n >= 0, s >= 1
Ceil(n, s) == (n + s - 1) \div s

TotalPages(n, s) == Ceil(n, s)
StartIdx(page, s) == (page - 1) * s

\* mutant: the slice ends one record early
EndIdxOffByOne(page, s) == StartIdx(page, s) + s - 1

EndIdx(page, s) == StartIdx(page, s) + s

\* a slice bound as Python normalises it for a sequence of length n
SliceBound(i, n) == IF i < 0 THEN Max(i + n, 0) ELSE Min(i, n)

\* frame.iloc[start:stop]
iloc(frame, start, stop) ==
    LET lo == SliceBound(start, Len(frame))
        hi == SliceBound(stop, Len(frame))
    IN  [k \in 1..Max(hi - lo, 0) |-> frame[lo + k]]

page_slice(frame, page, s) == iloc(frame, StartIdx(page, s), EndIdx(page, s))

(***************************************************************************)
(* Inputs of the parser: texts, link targets and rows.                     *)
(***************************************************************************)
Github == <<"https:", "//", "github.com", "/org/repo">>
Docs == <<"https:", "//", "docs.snowflake.com", "/x">>
Repo == <<"https:", "//", "repo.anaconda.com", "/x">>
Evil == <<"https:", "//", "evil.example", "/x">>
Lookalike == <<"https:", "//", "github.com.evil.example", "/x">>
WithPort == <<"https:", "//", "github.com", ":443", "/org/repo">>
WithUser == <<"https:", "//", "user@", "github.com", "/x">>
BadIPv6 == <<"http:", "//", "[::1", "/x">>
Relative == <<"/docs/index.html">>
NoScheme == <<"github.com", "/org/repo">>
JsScheme == <<"javascript:", "//", "github.com", "/x">>

\* (anchors of the documentation cell, anchors of the development cell)
LinkVariants ==
    << <<  <<Anchor(Github)>>,               <<Anchor(Evil)>>      >>,
       <<  <<>>,                             <<Anchor(Docs)>>      >>,
       <<  <<Anchor(WithPort)>>,             <<Anchor(WithUser)>>  >>,
       <<  <<AnchorNoHref>>,                 <<Anchor(Github)>>    >>,
       <<  <<Anchor(Evil), Anchor(Github)>>, <<Anchor(BadIPv6)>>   >>,
       <<  <<Anchor(Lookalike)>>,            <<Anchor(Empty)>>     >>,
       <<  <<Anchor(Repo)>>,                 <<AnchorNoHref>>      >>,
       <<  <<Anchor(Relative)>>,             <<Anchor(NoScheme)>>  >>,
       <<  <<Anchor(JsScheme)>>,             <<>>                  >> >>

\* (name, license, summary) as written in the cells
TextVariants ==
    << << <<" ", "a", "b", " ">>, <<"M", "I", "T">>,      <<"s", "u", "m">> >>,
       << <<"<", "B", ">">>,       <<"B", "&", "C">>,      <<" ">>           >>,
       << <<"a", ".", "c">>,       <<"M", "I", "T", " ">>, <<"A", "b">>      >>,
       << <<"A", "B">>,            <<>>,                   <<"x", "&", "y">> >> >>

\* a row of n cells: name, version, documentation, development, license,
\* six cells the program does not read, summary
MkRow(n, links, texts) ==
    [i \in 1..n |->
        CASE i = 1  -> Cell(texts[1], <<>>)
          [] i = 2  -> Cell(<<"1", ".", "0">>, <<>>)
          [] i = 3  -> Cell(<<"d", "o", "c">>, links[1])
          [] i = 4  -> Cell(<<"d", "e", "v">>, links[2])
          [] i = 5  -> Cell(texts[2], <<>>)
          [] i = 12 -> Cell(texts[3], <<>>)
          [] OTHER  -> Cell(<<"-">>, <<>>)]

\* (number of cells, link variant, text variant)
RowShapes ==
    { <<0, 1, 1>>, <<1, 1, 2>>, <<2, 1, 1>>, <<3, 1, 3>>, <<3, 4, 1>>,
      <<4, 1, 2>>, <<4, 3, 1>>, <<4, 7, 3>>, <<5, 2, 2>>, <<5, 5, 4>>,
      <<11, 6, 1>>, <<12, 1, 1>>, <<12, 3, 2>>, <<12, 4, 3>>, <<12, 5, 4>>,
      <<12, 6, 2>>, <<12, 8, 3>>, <<12, 9, 1>> }

Rows == { MkRow(sh[1], LinkVariants[sh[2]], TextVariants[sh[3]]) : sh \in RowShapes }

Documents == UNION { [1..k -> Rows] : k \in 0..MaxDocRows }

(***************************************************************************)
(* Listings the channel can serve: n packages named pkg01, pkg02, ... (or  *)
(* lib01, lib02, ... once the channel has renamed them), with alternating  *)
(* licenses and every third summary mentioning "a".                        *)
(***************************************************************************)
DigitChars == <<"0", "1", "2", "3", "4", "5", "6", "7", "8", "9">>
Digits(i) == <<DigitChars[(i \div 10) + 1], DigitChars[(i % 10) + 1]>>

ListingRow(prefix, i) ==
    MkRow(12,
          << <<Anchor(Docs)>>, <<Anchor(Github)>> >>,
          << prefix \o Digits(i),
             IF i % 2 = 1 THEN <<"M", "I", "T">> ELSE <<"B", "S", "D">>,
             IF i % 3 = 0 THEN <<"a">> ELSE <<"b">> >>)

HeaderRow == <<>>

NamedListing(prefix, n) == <<HeaderRow>> \o [i \in 1..n |-> ListingRow(prefix, i)]

Listing(n) == NamedListing(<<"p", "k", "g">>, n)

RenamedListing == NamedListing(<<"l", "i", "b">>, 16)

(***************************************************************************)
(* Values of the variables a specification does not use.                   *)
(***************************************************************************)
ParseIdle == html_content = <<>> /\ packages = NotParsed
QueryIdle ==
    /\ df = <<>> /\ search_term = Empty /\ license_filter = All
    /\ filtered_df = <<>>
PageIdle ==
    /\ page_size = ITEMS_PER_PAGE /\ current_page = 1
    /\ total_items = 0 /\ total_pages = 0 /\ start_idx = 0 /\ end_idx = 0
    /\ page_df = <<>>
SessionIdle ==
    /\ last_search = None /\ last_license = None
    /\ cache = [present |-> FALSE, value |-> <<>>, failed |-> FALSE, time |-> 0]
    /\ now = 0 /\ calls = 0 /\ gets = 0 /\ errors = 0
    /\ shown_licenses = {} /\ clicked = "none"

parseVars == <<html_content, packages>>
queryVars == <<df, search_term, license_filter, filtered_df>>
pageVars == <<page_size, current_page, total_items, total_pages, start_idx,
              end_idx, page_df>>
sessionVars == <<last_search, last_license, cache, now, calls, gets, errors,
                 shown_licenses, clicked>>

(***************************************************************************)
(* SpecParse: parse_package_data applied to every bounded document.        *)
(***************************************************************************)
InitParse ==
    /\ html_content \in Documents
    /\ packages = NotParsed
    /\ status = "input"
    /\ QueryIdle /\ PageIdle /\ SessionIdle

Parse ==
    /\ status = "input"
    /\ packages' = parse_package_data(html_content)
    /\ status' = "parsed"
    /\ UNCHANGED <<html_content, queryVars, pageVars, sessionVars>>

NextParse == Parse

SpecParse == InitParse /\ [][NextParse]_vars

(***************************************************************************)
(* Claims about the parser and the URL allow-list.                         *)
(***************************************************************************)
\* the rows after the first that have at least one cell, in document order
DataRows(content) ==
    IF content = <<>> THEN <<>>
    ELSE SelectSeq(Tail(content), LAMBDA r : Len(r) >= 1)

\* the link target a link cell offers: the href of its first anchor, if any
LinkTarget(row, k) ==
    IF Len(row) >= k /\ Len(row[k].anchors) >= 1 /\ row[k].anchors[1].has_href
    THEN row[k].anchors[1].href
    ELSE Empty

\* C3: parse_package_data never raises; it skips the first row and emits one
\* record per later row with at least one cell, in document order, where every
\* field whose cell is missing, or whose link cell has no usable anchor
\* target, is the empty string.
C3_ParseNeverRaises ==
    status = "parsed" =>
        /\ ~packages.raised
        /\ Len(packages.records) = Len(DataRows(html_content))
        /\ \A i \in 1..Len(packages.records) :
              LET row == DataRows(html_content)[i]
                  rec == packages.records[i]
              IN  /\ rec.package_name = sanitize_text(Strip(row[1].text))
                  /\ Len(row) < 2 => rec.version = Empty
                  /\ Len(row) < 5 => rec.license = Empty
                  /\ Len(row) < 12 => rec.summary = Empty
                  /\ LinkTarget(row, 3) = Empty => rec.documentation = Empty
                  /\ LinkTarget(row, 4) = Empty => rec.development = Empty

Records == { package_info(row) : row \in { r \in Rows : Len(r) >= 1 /\ ~RowRaises(r) } }

RecordSets == UNION { [1..k -> Records] : k \in 1..MaxRecs }

SearchTerms ==
    { Empty, <<"a">>, <<"A", "B">>, <<".">>, <<"&">>, <<"<">>, <<"a", ".", "C">>,
      <<"z">>, <<"s", "U">> }

InitFilter ==
    /\ df \in RecordSets
    /\ search_term \in SearchTerms
    /\ license_filter \in licenses(df)
    /\ filtered_df = <<>>
    /\ status = "input"
    /\ ParseIdle /\ PageIdle /\ SessionIdle

Filter ==
    /\ status = "input"
    /\ filtered_df' = filter_packages(df, search_term, license_filter)
    /\ status' = "filtered"
    /\ UNCHANGED <<df, search_term, license_filter, parseVars, pageVars, sessionVars>>

NextFilter == Filter

SpecFilter == InitFilter /\ [][NextFilter]_vars

\* needle occurs in hay as a literal substring, letter case ignored
ContainsCI(needle, hay) ==
    \E off \in 0..(Len(hay) - Len(needle)) :
        \A j \in 1..Len(needle) : Lower(hay[off + j]) = Lower(needle[j])

\* the records of frame that satisfy keep, in their original order: the k-th
\* of them is the record at the k-th smallest kept position
Subsequence(frame, keep(_)) ==
    LET kept == { i \in 1..Len(frame) : keep(frame[i]) }
        kth(k) == CHOOSE i \in kept : Cardinality({ j \in kept : j <= i }) = k
    IN  [k \in 1..Cardinality(kept) |-> frame[kth(k)]]

C10_LicenseOptionSelects ==
    (status = "filtered" /\ search_term = Empty /\ license_filter # All) =>
        /\ filtered_df = Subsequence(df, LAMBDA rec : rec.license = license_filter)
        /\ filtered_df # <<>>

(***************************************************************************)
(* SpecPage: the pagination arithmetic applied to every bounded filtered   *)
(* sequence, page size and page number.                                    *)
(***************************************************************************)
InitPage ==
    /\ \E n \in 0..MaxItems : filtered_df = parse_package_data(Listing(n)).records
    /\ page_size \in (1..MaxPageSize) \cup {ITEMS_PER_PAGE}
    /\ current_page \in 1..MaxPage
    /\ total_items = 0 /\ total_pages = 0 /\ start_idx = 0 /\ end_idx = 0
    /\ page_df = <<>>
    /\ status = "input"
    /\ df = <<>> /\ search_term = Empty /\ license_filter = All
    /\ ParseIdle /\ SessionIdle

Paginate ==
    /\ status = "input"
    /\ total_items' = Len(filtered_df)
    /\ total_pages' = TotalPages(Len(filtered_df), page_size)
    /\ start_idx' = StartIdx(current_page, page_size)
    /\ end_idx' = EndIdx(current_page, page_size)
    /\ page_df' = page_slice(filtered_df, current_page, page_size)
    /\ status' = "paged"
    /\ UNCHANGED <<filtered_df, page_size, current_page, df, search_term,
                   license_filter, parseVars, sessionVars>>

NextPage == Paginate

SpecPage == InitPage /\ [][NextPage]_vars

RECURSIVE ConcatPages(_, _, _, _)
ConcatPages(frame, page, last, s) ==
    IF page > last THEN <<>>
    ELSE page_slice(frame, page, s) \o ConcatPages(frame, page + 1, last, s)

\* C8: the page slice is the records at positions [(p-1)*s, min(p*s, n)) in
\* order, empty when (p-1)*s >= n, and the slices of pages 1..ceil(n/s)
\* concatenated in page order reproduce the filtered sequence.
C8_PageSlice ==
    status = "paged" =>
        LET n == Len(filtered_df)
            first == (current_page - 1) * page_size
            last == Min(current_page * page_size, n)
        IN  /\ Len(page_df) = (IF first >= n THEN 0 ELSE last - first)
            /\ \A k \in 1..Len(page_df) : page_df[k] = filtered_df[first + k]
            /\ ConcatPages(filtered_df, 1, Ceil(n, page_size), page_size) = filtered_df

\* a short last page, and a page past the end
C8_Witness ==
    /\ status = "paged"
    /\ Len(filtered_df) = 7 /\ page_size = 3
    /\ \/ current_page = 3 /\ Len(page_df) = 1
       \/ current_page = 4 /\ page_df = <<>>

(***************************************************************************)
(* The cached fetch and one script run of main().                          *)
(***************************************************************************)
NoEntry == [present |-> FALSE, value |-> <<>>, failed |-> FALSE, time |-> 0]
Entry(value, failed, time) ==
    [present |-> TRUE, value |-> value, failed |-> failed, time |-> time]

\* mutant: an entry never expires
CacheFreshForever(entry, time) == entry.present

\* @st.cache_data(ttl=3600): an entry is served until it is ttl seconds old
CacheFresh(entry, time) == entry.present /\ time < entry.time + CACHE_TTL

\* what requests.get can bring back: an error, or a page
FailedGet == [ok |-> FALSE, body |-> <<>>]
Page(body) == [ok |-> TRUE, body |-> body]

\* a listing whose third row has a documentation anchor without href
MalformedListing ==
    Listing(2) \o << MkRow(12, << <<AnchorNoHref>>, <<>> >>, TextVariants[1]) >>

ListingSizes == {0, 10, 16, 31}

Responses ==
    {FailedGet, Page(MalformedListing), Page(RenamedListing)}
        \cup { Page(Listing(n)) : n \in ListingSizes }

\* what the run's GET brings back; a run served from the cache makes none
Incoming == IF CacheFresh(cache, now) THEN {FailedGet} ELSE Responses

\* fetch_package_data() behind the cache: the value returned (or the
\* exception let through), the cache entry afterwards, the GETs made and the
\* st.error messages shown, those of a cached call being replayed on a hit
fetch_package_data(response) ==
    IF CacheFresh(cache, now)
    THEN [raised |-> FALSE, value |-> cache.value, entry |-> cache, gets |-> 0,
          errors |-> IF cache.failed THEN 1 ELSE 0]
    ELSE IF ~response.ok
    THEN [raised |-> FALSE, value |-> <<>>, entry |-> Entry(<<>>, TRUE, now),
          gets |-> 1, errors |-> 1]
    ELSE LET parsed == parse_package_data(response.body)
         IN  IF parsed.raised
             THEN [raised |-> TRUE, value |-> <<>>, entry |-> cache, gets |-> 1,
                   errors |-> 0]
             ELSE [raised |-> FALSE, value |-> parsed.records,
                   entry |-> Entry(parsed.records, FALSE, now), gets |-> 1,
                   errors |-> 0]

\* mutant: only a changed search term resets the page
PageAfterSearchCheck(page, search, lic, prev_search, prev_lic) ==
    IF search # prev_search THEN 1 ELSE page

\* "Check if filters have changed": the page the rest of the run uses
page_after_filter_check(page, search, lic, prev_search, prev_lic) ==
    IF search # prev_search \/ lic # prev_lic THEN 1 ELSE page

\* a run that ends before the widgets are drawn: Streamlit drops the state of
\* the widgets it did not draw, the session keys stay
EndsEarly(how, shown) ==
    /\ status' = how
    /\ errors' = shown
    /\ df' = <<>> /\ filtered_df' = <<>> /\ page_df' = <<>>
    /\ search_term' = Empty /\ license_filter' = All /\ shown_licenses' = {}
    /\ total_items' = 0 /\ total_pages' = 0 /\ start_idx' = 0 /\ end_idx' = 0
    /\ UNCHANGED <<current_page, last_search, last_license>>

\* one script run: the text typed, the license selected, the button clicked
\* ("none", "previous", "next") and what a GET would bring back
main(search_in, license_in, click, response) ==
    \E fetched \in {fetch_package_data(response)} :
        /\ cache' = fetched.entry
        /\ calls' = 1
        /\ gets' = fetched.gets
        /\ clicked' = click
        /\ UNCHANGED <<now, page_size, parseVars>>
        /\ IF fetched.raised THEN EndsEarly("exception", fetched.errors)
           ELSE IF fetched.value = <<>> THEN EndsEarly("empty", fetched.errors + 1)
           ELSE
             \E options \in {licenses(fetched.value)} :
             \* a select box drawn with other options is a new widget
             \E lic \in {IF options = shown_licenses THEN license_in ELSE All} :
             \E filtered \in {filter_packages(fetched.value, search_in, lic)} :
             LET changed == search_in # last_search \/ lic # last_license
                 page == page_after_filter_check(current_page, search_in, lic,
                                                 last_search, last_license)
                 pages == TotalPages(Len(filtered), ITEMS_PER_PAGE)
             IN  /\ df' = fetched.value
                 /\ errors' = fetched.errors
                 /\ search_term' = search_in
                 /\ license_filter' = lic
                 /\ shown_licenses' = options
                 /\ last_search' = (IF changed THEN search_in ELSE last_search)
                 /\ last_license' = (IF changed THEN lic ELSE last_license)
                 /\ filtered_df' = filtered
                 /\ total_items' = Len(filtered)
                 /\ total_pages' = pages
                 /\ start_idx' = StartIdx(page, ITEMS_PER_PAGE)
                 /\ end_idx' = EndIdx(page, ITEMS_PER_PAGE)
                 /\ IF click = "previous"
                    THEN /\ current_page' = Max(1, page - 1)
                         /\ status' = "rerun"
                         /\ page_df' = <<>>
                    ELSE IF click = "next"
                    THEN /\ current_page' = Min(pages, page + 1)
                         /\ status' = "rerun"
                         /\ page_df' = <<>>
                    ELSE /\ current_page' = page
                         /\ status' = "ok"
                         /\ page_df' = page_slice(filtered, page, ITEMS_PER_PAGE)

(***************************************************************************)
(* SpecRender: one browser session; every step but Tick is one script run. *)
(***************************************************************************)
RenderTerms == { Empty, <<"g">>, <<"a">>, <<"z">> }

InitRender ==
    /\ current_page = 1 /\ last_search = None /\ last_license = None
    /\ cache = NoEntry /\ now = 0
    /\ status = "new"
    /\ page_size = ITEMS_PER_PAGE
    /\ total_items = 0 /\ total_pages = 0 /\ start_idx = 0 /\ end_idx = 0
    /\ page_df = <<>>
    /\ calls = 0 /\ gets = 0 /\ errors = 0 /\ shown_licenses = {} /\ clicked = "none"
    /\ QueryIdle /\ ParseIdle

\* the session's first run
Load ==
    /\ status = "new"
    /\ \E response \in Incoming : main(Empty, All, "none", response)

\* the user reruns the script without touching a widget
UserRerun ==
    /\ status \in {"ok", "empty", "exception"}
    /\ \E response \in Incoming : main(search_term, license_filter, "none", response)

\* the run st.rerun() asked for
StRerun ==
    /\ status = "rerun"
    /\ \E response \in Incoming : main(search_term, license_filter, "none", response)

ChangeSearch ==
    /\ status = "ok"
    /\ \E term \in RenderTerms \ {search_term}, response \in Incoming :
          main(term, license_filter, "none", response)

ChangeLicense ==
    /\ status = "ok"
    /\ \E lic \in shown_licenses \ {license_filter}, response \in Incoming :
          main(search_term, lic, "none", response)

\* the button is drawn enabled when current_page > 1
ClickPrevious ==
    /\ status = "ok" /\ ~(current_page <= 1)
    /\ \E response \in Incoming : main(search_term, license_filter, "previous", response)

\* the button is drawn enabled when current_page < total_pages
ClickNext ==
    /\ status = "ok" /\ ~(current_page >= total_pages)
    /\ \E response \in Incoming : main(search_term, license_filter, "next", response)

Tick ==
    /\ now + TickStep <= MaxTime
    /\ now' = now + TickStep
    /\ UNCHANGED <<parseVars, queryVars, pageVars, status, last_search,
                   last_license, cache, calls, gets, errors, shown_licenses, clicked>>

NextRender ==
    \/ Load
    \/ UserRerun
    \/ StRerun
    \/ ChangeSearch
    \/ ChangeLicense
    \/ ClickPrevious
    \/ ClickNext
    \/ Tick

SpecRender == InitRender /\ [][NextRender]_vars

(***************************************************************************)
(* Claims about the render cycle.                                          *)
(***************************************************************************)
\* C1: the total page count of a render equals ceil(total_items / page_size)
\* and is at least 1; when the filter keeps zero records the render reports
\* total_pages = 1 and an empty page slice.
C1_TotalPagesAtLeastOne ==
    status = "ok" =>
        /\ total_pages = Ceil(total_items, page_size)
        /\ total_pages >= 1
        /\ total_items = 0 => (total_pages = 1 /\ page_df = <<>>)

\* C2: a run whose search term or license filter differs from the one of the
\* run before it computes its slice from current_page = 1, and the slice it
\* shows is the first page of the new filter result.
C2_FilterChangeResetsPage ==
    [][ ( /\ now' = now
          /\ status \in {"ok", "rerun"} /\ status' \in {"ok", "rerun"}
          /\ search_term' # search_term \/ license_filter' # license_filter )
        => /\ start_idx' = 0
           /\ status' = "ok" =>
                 /\ current_page' = 1
                 /\ Len(page_df') = Min(ITEMS_PER_PAGE, Len(filtered_df'))
                 /\ \A k \in 1..Len(page_df') : page_df'[k] = filtered_df'[k] ]_vars

\* a filtered render on its first page with a second page to go to
C2_Witness ==
    /\ status = "ok"
    /\ license_filter = <<"M", "I", "T">> /\ last_license = license_filter
    /\ current_page = 1 /\ total_pages = 2
    /\ Len(page_df) = ITEMS_PER_PAGE

C5_SingleErrorOnFailure ==
    (gets >= 1 /\ cache.present /\ cache.failed /\ cache.time = now) =>
        /\ gets = 1
        /\ status = "empty"
        /\ df = <<>> /\ page_df = <<>>
        /\ errors = 1

\* C9: every render computes its page slice with
\* 1 <= current_page <= total_pages.
C9_PageWithinRange ==
    status = "ok" => (1 <= current_page /\ current_page <= total_pages)

\* C9 with at least one page to show: the page is still out of range after
\* the record set shrinks
C9_PageWithinRangeNonEmpty ==
    (status = "ok" /\ total_pages >= 1) => current_page <= total_pages

====
